---- MODULE Spec2Model ----
(***************************************************************************)
(* libws: the connection handlers (backoff reconnect, reopen-interval,     *)
(* active keep-alive) and the WebSocket connection, each run against an    *)
(* inner ConnectionHandler that connects, fails and closes as the network  *)
(* decides.  One handler is under verification per behaviour: `kind` says  *)
(* which one was constructed.  Durations are in seconds.                   *)
(***************************************************************************)
EXTENDS Integers, Sequences, FiniteSets, TLC

\* ------------------------------------------------------------------ bounds
\* inner handlers whose Connect the network lets succeed
MaxInner == 2
\* highest value of newConnHandler's attempts the calculator is asked about
MaxAttempts == 3
\* goroutines calling Close() on the handler
NumClosers == 2
\* Send / Recv calls of the light traffic profile
MaxCalls == 1
\* keep-alive messages the inner handler keeps a record of
MaxPings == 2
\* healthy-connection threshold passed to the backoff factory, in ticks
connDurationThreshold == 1
\* event emitter: On calls and Emit calls made on it
MaxOn == 2
MaxEmit == 2

\* ------------------------------------------------------- program constants
\* make(chan Message, 32)
ChanCap == 32
\* time.Sleep(time.Second)
OneSecond == 1

Closers == 1..NumClosers
InnerIds == 1..(MaxInner + 1)

\* ------------------------------------------------------------------ errors
Nil == <<>>
ErrConnectionClosed == <<"ErrConnectionClosed">>
ErrCannotConnect == <<"ErrCannotConnect">>
ErrTerminated == <<"ErrTerminated">>
ErrRateLimit == <<"ErrRateLimit">>
\* an error of the inner handler that is none of the sentinels
ErrOther == <<"other">>

\* errors.Wrap(err, msg): a new error whose chain continues with err
Wrap(err, msg) == <<msg>> \o err

\* errors.Is(err, target): target is err or is in err's chain
ErrorsIs(err, target) ==
    \E i \in 1..Len(err) : SubSeq(err, i, Len(err)) = target

\* what an inner Connect can return besides nil
ConnectErrors ==
    { Wrap(ErrCannotConnect, "dial"), Wrap(ErrRateLimit, "body"), ErrOther }

\* the reasons an inner handler can close with by itself
CloseReasons ==
    { Nil, Wrap(ErrConnectionClosed, "read"), ErrTerminated, ErrOther }

\* -------------------------------------------------------------- calculator
RECURSIVE Pow2(_)
Pow2(n) == IF n = 0 THEN 1 ELSE 2 * Pow2(n - 1)

\* (math.Pow(2.0, attempts) - 1) / 2, a float64
ExponentialBackoffTwice(attempts) == Pow2(attempts) - 1

\* a conversion that rounds to the nearest second instead
ExponentialBackoffRounded(attempts) ==
    ((ExponentialBackoffTwice(attempts) + 1) \div 2) * OneSecond

\* time.Duration(float64) truncates; times time.Second
ExponentialBackoffSeconds(attempts) == (ExponentialBackoffTwice(attempts) \div 2) * OneSecond

calculator(attempts) == ExponentialBackoffSeconds(attempts)

Min(a, b) == IF a < b THEN a ELSE b

VARIABLES
    kind,            \* which handler was constructed
    env,             \* what the callers and the network may still do
    ctxDone,         \* ctx.Done() is closed
    fault,           \* a goroutine panicked: the process is gone
    inners,          \* the inner handlers the factory has produced
    inner,           \* the handler's field inner (0 is nil)
    closeC,          \* number of close() executed on the handler's close channel
    closeOnce,       \* the sync.Once of Close: "new", "running", "done"
    closeReason,     \* the field closeReason
    cl,              \* each Close() caller: "idle", "called", "returned"
    pc,              \* position of the Connect caller, then of the run goroutine
    phase,           \* why a new inner is being connected
    attempts,        \* backoff run's local attempts
    innerCloseChan,  \* run's local close channel: the inner whose channel it is
    deferred,        \* the receiver captured by backoff run's defer
    ncAttempts,      \* newConnHandler's local attempts
    ch,              \* the local holding the handler just connected
    ttw,             \* duration of the current or last sleep
    elapsed,         \* ticks since then
    reconnects,      \* goroutines tasks for Emit(EventReconnect)
    send,            \* the channel send
    recv,            \* the channel recv
    calls,           \* Send and Recv calls made so far
    waiting,         \* callers blocked in b.send <- m / b.recv <- m
    delivered,       \* calls the inner handlers received, in order
    innerMu,         \* reopen-interval: the RWMutex innerMu: "free", "W", "R"
    connectOnce,     \* active keep-alive: the sync.Once of Connect
    conn,            \* WsConnection: the socket: "nil", "open", "closed"
    closeReasonOnce, \* WsConnection: the sync.Once of setCloseReason
    rd,              \* WsConnection: position of the read goroutine
    wr,              \* WsConnection: position of the write goroutine
    emit,            \* the goroutines of Emit(EventReconnect) that found a listener
    connectCalls,    \* reopen-interval, active keep-alive: Connect calls made
    runs,            \* reopen-interval, active keep-alive: run goroutines started
    emitter          \* EventEmitterCallback: its listeners, the Emit calls in progress
                     \* and the callbacks invoked so far

\* the network, the callers' budget and the context
world == << kind, env, ctxDone, fault >>
\* the handler's fields
fields == << inner, closeC, closeOnce, closeReason >>
\* the Close() callers
closers == << cl >>
\* the locals of Connect, newConnHandler and run
locals ==
    << pc, phase, attempts, innerCloseChan, deferred, ncAttempts, ch, ttw, elapsed,
       reconnects >>
\* the message channels and their callers
chans == << send, recv, calls, waiting, delivered >>

\* what only one kind of handler has
extra == << innerMu, connectOnce, conn, closeReasonOnce, rd, wr >>

\* the goroutines started besides the first run, and the calls that start them
tasks == << emit, connectCalls, runs, emitter >>

vars == << world, inners, fields, closers, tasks, locals, chans, extra >>

\* ------------------------------------------------- inner ConnectionHandler
\* long records, for a handler the backoff run loop replaced, that the loop
\* measured its connection to have lived longer than connDurationThreshold
NoInner ==
    [st |-> "none", closed |-> FALSE, closeCalled |-> FALSE, err |-> Nil, long |-> FALSE]

\* the factory's next handler
NextId == 1 + Cardinality({i \in InnerIds : inners[i].st # "none"})

\* the handlers that connected and whose Close() was never called
Unclosed == {i \in InnerIds : inners[i].st = "connected" /\ ~inners[i].closeCalled}

\* the active handlers: connected and not closed
Active == {i \in InnerIds : inners[i].st = "connected" /\ ~inners[i].closed}

\* inner.Close(): idempotent, fires the inner's close-signal
InnerClose(ins, i) ==
    [ins EXCEPT ![i] = [@ EXCEPT !.closeCalled = TRUE,
                                 !.closed = TRUE,
                                 !.err = IF @ = Nil /\ ~ins[i].closed
                                         THEN ErrTerminated ELSE @]]

\* the connection under a connected inner handler ends by itself
InnerDies(i, r) ==
    /\ ~fault
    /\ ~env.stable
    /\ inners[i].st = "connected"
    /\ ~inners[i].closed
    /\ inners' = [inners EXCEPT ![i] = [@ EXCEPT !.closed = TRUE, !.err = r]]
    /\ UNCHANGED << extra, world, fields, closers, tasks, locals, chans >>

\* ctx is cancelled
CtxCancel ==
    /\ ~fault
    /\ ~ctxDone
    /\ ctxDone' = TRUE
    /\ UNCHANGED << extra, kind, env, fault, inners, fields, closers, tasks, locals, chans >>

\* --------------------------------------------------------- backoff handler
\* the basicClient's Open up to Connect: a listener that calls the user's
\* event handler, one per event key
ClientOpen(e) ==
    [e EXCEPT !.listeners = [k \in DOMAIN @ |-> Append(@[k], Len(@[k]) + 1)]]

\* Connect: b.inner = b.newConnHandler(ctx), entering newConnHandler; under a
\* client it is Open that calls it, after its calls of On
BackoffConnect ==
    /\ kind = "backoff"
    /\ ~fault
    /\ pc = "fresh"
    /\ pc' = "connecting"
    /\ phase' = "initial"
    /\ ncAttempts' = 0
    /\ emitter' = IF env.listeners THEN ClientOpen(emitter) ELSE emitter
    /\ UNCHANGED << extra, world, inners, fields, closers, emit, connectCalls, runs, attempts,
                    innerCloseChan, deferred, ch, ttw, elapsed, reconnects, chans >>

\* a connecting loop that takes every wait from the calculator
newConnHandlerWaitCalculated(err, n) == calculator(n)

\* the wait newConnHandler makes after Connect failed with err
newConnHandlerWait(err, n) ==
    IF ErrorsIs(err, ErrCannotConnect) THEN OneSecond ELSE calculator(n)

\* newConnHandler, one turn of its loop: attempts++, a handler from the factory,
\* Connect on it; err is what Connect returns
newConnHandler(err) ==
    /\ kind = "backoff"
    /\ ~fault
    /\ pc = "connecting"
    /\ ncAttempts' = Min(ncAttempts + 1, MaxAttempts + 1)
    /\ IF err = Nil
       THEN /\ NextId <= env.conns
            /\ inners' = [inners EXCEPT ![NextId] = [NoInner EXCEPT !.st = "connected"]]
            /\ ch' = NextId
            /\ pc' = "connected"
            /\ UNCHANGED ttw
       ELSE /\ env.fails \/ NextId > env.conns
            /\ ErrorsIs(err, ErrCannotConnect) \/ ncAttempts < MaxAttempts
            /\ ttw' = newConnHandlerWait(err, ncAttempts + 1)
            /\ pc' = "nc_sleep"
            /\ UNCHANGED << inners, ch >>
    /\ UNCHANGED << extra, world, fields, closers, tasks, phase, attempts, innerCloseChan, deferred,
                    elapsed, reconnects, chans >>

\* newConnHandler: time.Sleep is over, continue
newConnHandlerSleep ==
    /\ kind = "backoff"
    /\ ~fault
    /\ pc = "nc_sleep"
    /\ pc' = "connecting"
    /\ ttw' = 0
    /\ UNCHANGED << extra, world, inners, fields, closers, tasks, phase, attempts, innerCloseChan,
                    deferred, ncAttempts, ch, elapsed, reconnects, chans >>

\* Connect: the first handler is assigned, go b.run(ctx), return nil
BackoffConnectReturn ==
    /\ kind = "backoff"
    /\ ~fault
    /\ pc = "connected"
    /\ phase = "initial"
    /\ inner' = ch
    /\ pc' = "spawned"
    /\ ch' = 0
    /\ ncAttempts' = 0
    /\ UNCHANGED << extra, world, inners, closeC, closeOnce, closeReason, closers, tasks, phase,
                    attempts, innerCloseChan, deferred, ttw, elapsed, reconnects,
                    chans >>

\* the receiver run's defer b.inner.Close() captures when the statement runs
DeferReceiver == inner

\* run, up to its loop: the locals and the defer
run_start ==
    /\ kind = "backoff"
    /\ ~fault
    /\ pc = "spawned"
    /\ innerCloseChan' = inner
    /\ attempts' = 0
    /\ elapsed' = 0
    /\ deferred' = DeferReceiver
    /\ pc' = "select"
    /\ UNCHANGED << extra, world, inners, fields, closers, tasks, phase, ncAttempts, ch, ttw,
                    reconnects, chans >>

\* time passes while run waits in its select
Tick ==
    /\ kind = "backoff"
    /\ ~fault
    /\ pc = "select"
    /\ env.timed
    /\ elapsed <= connDurationThreshold
    /\ elapsed' = elapsed + 1
    /\ UNCHANGED << extra, world, inners, fields, closers, tasks, pc, phase, attempts, innerCloseChan,
                    deferred, ncAttempts, ch, ttw, reconnects, chans >>

\* run: case <-ctx.Done(): return
run_ctxDone ==
    /\ kind = "backoff"
    /\ ~fault
    /\ pc = "select"
    /\ ctxDone
    /\ pc' = "exit"
    /\ UNCHANGED << extra, world, inners, fields, closers, tasks, phase, attempts, innerCloseChan,
                    deferred, ncAttempts, ch, ttw, elapsed, reconnects, chans >>

\* run: case <-b.closeC: return
run_closeC ==
    /\ kind = "backoff"
    /\ ~fault
    /\ pc = "select"
    /\ closeC > 0
    /\ pc' = "exit"
    /\ UNCHANGED << extra, world, inners, fields, closers, tasks, phase, attempts, innerCloseChan,
                    deferred, ncAttempts, ch, ttw, elapsed, reconnects, chans >>

\* run: case msg := <-b.recv: b.inner.Recv(msg) when b.inner != nil
\* a run that takes the newest message of the channel
run_recvNewest ==
    /\ kind = "backoff"
    /\ ~fault
    /\ pc = "select"
    /\ recv # << >>
    /\ recv' = SubSeq(recv, 1, Len(recv) - 1)
    /\ delivered' = IF inner # 0
                    THEN Append(delivered,
                                [to |-> inner, op |-> "Recv", m |-> recv[Len(recv)]])
                    ELSE delivered
    /\ UNCHANGED << extra, world, inners, fields, closers, tasks, locals, send, calls, waiting >>

run_recv ==
    /\ kind = "backoff"
    /\ ~fault
    /\ pc = "select"
    /\ recv # << >>
    /\ recv' = Tail(recv)
    /\ delivered' = IF inner # 0
                    THEN Append(delivered, [to |-> inner, op |-> "Recv", m |-> Head(recv)])
                    ELSE delivered
    /\ UNCHANGED << extra, world, inners, fields, closers, tasks, locals, send, calls, waiting >>

\* run: case msg := <-b.send: b.inner.Send(msg) when b.inner != nil
run_send ==
    /\ kind = "backoff"
    /\ ~fault
    /\ pc = "select"
    /\ send # << >>
    /\ send' = Tail(send)
    /\ delivered' = IF inner # 0
                    THEN Append(delivered, [to |-> inner, op |-> "Send", m |-> Head(send)])
                    ELSE delivered
    /\ UNCHANGED << extra, world, inners, fields, closers, tasks, locals, recv, calls, waiting >>

\* an update that resets the counter at the threshold already
nextAttemptsAtThreshold(reason, delta, n) ==
    IF reason # Nil /\ (ErrorsIs(reason, ErrConnectionClosed) \/ ErrorsIs(reason, ErrTerminated))
    THEN IF delta >= connDurationThreshold THEN 0 ELSE n + 1
    ELSE n

\* an update that never counts a short-lived connection
nextAttemptsNoCount(reason, delta, n) ==
    IF reason # Nil /\ (ErrorsIs(reason, ErrConnectionClosed) \/ ErrorsIs(reason, ErrTerminated))
    THEN IF delta > connDurationThreshold THEN 0 ELSE n
    ELSE n

\* an update that counts only connections ended by ErrConnectionClosed and
\* takes ErrTerminated for a healthy end
nextAttemptsClosedOnly(reason, delta, n) ==
    IF reason # Nil /\ ErrorsIs(reason, ErrTerminated)
    THEN 0
    ELSE IF reason # Nil /\ ErrorsIs(reason, ErrConnectionClosed)
         THEN IF delta > connDurationThreshold THEN 0 ELSE n + 1
         ELSE n

\* run's update of attempts from the inner's close reason and the time the
\* connection lived
nextAttempts(reason, delta, n) ==
    IF reason # Nil /\ (ErrorsIs(reason, ErrConnectionClosed) \/ ErrorsIs(reason, ErrTerminated))
    THEN IF delta > connDurationThreshold THEN 0 ELSE n + 1
    ELSE n

\* run: case <-innerCloseChan, up to the sleep: close the inner, take its reason,
\* update attempts, compute the wait
run_innerClosed ==
    /\ kind = "backoff"
    /\ ~fault
    /\ pc = "select"
    /\ inners[innerCloseChan].closed
    /\ inners' = [InnerClose(inners, inner) EXCEPT
                      ![inner].long = elapsed > connDurationThreshold]
    /\ closeReason' = inners'[inner].err
    /\ attempts' = nextAttempts(closeReason', elapsed, attempts)
    /\ ttw' = calculator(attempts')
    /\ pc' = "rep_sleep"
    /\ elapsed' = 0
    /\ UNCHANGED << extra, world, inner, closeC, closeOnce, closers, tasks, phase, innerCloseChan,
                    deferred, ncAttempts, ch, reconnects, chans >>

\* run: time.Sleep(ttw) is over, enter newConnHandler
run_sleep ==
    /\ kind = "backoff"
    /\ ~fault
    /\ pc = "rep_sleep"
    /\ pc' = "connecting"
    /\ phase' = "repair"
    /\ ncAttempts' = 0
    /\ ttw' = 0
    /\ UNCHANGED << extra, world, inners, fields, closers, tasks, attempts, innerCloseChan, deferred,
                    ch, elapsed, reconnects, chans >>

\* run: the new handler is assigned, then is reset, go Emit(EventReconnect)
\* a run that installs the replacement and starts no Emit
run_reopenedSilent ==
    /\ kind = "backoff"
    /\ ~fault
    /\ pc = "connected"
    /\ phase = "repair"
    /\ inner' = ch
    /\ innerCloseChan' = ch
    /\ elapsed' = 0
    /\ pc' = "select"
    /\ ch' = 0
    /\ ncAttempts' = 0
    /\ UNCHANGED << extra, world, inners, closeC, closeOnce, closeReason, closers, tasks, phase,
                    attempts, deferred, ttw, chans, reconnects >>

run_reopened ==
    /\ kind = "backoff"
    /\ ~fault
    /\ pc = "connected"
    /\ phase = "repair"
    /\ inner' = ch
    /\ innerCloseChan' = ch
    /\ elapsed' = 0
    /\ reconnects' = reconnects + 1
    /\ emit' = IF env.listeners THEN Append(emit, "spawned") ELSE emit
    /\ pc' = "select"
    /\ ch' = 0
    /\ ncAttempts' = 0
    /\ UNCHANGED << extra, world, inners, closeC, closeOnce, closeReason, closers, emitter,
                    connectCalls, runs, phase, attempts, deferred, ttw, chans >>

\* run returns: the deferred Close() runs on the receiver the defer captured
run_exit ==
    /\ kind = "backoff"
    /\ ~fault
    /\ pc = "exit"
    /\ inners' = InnerClose(inners, deferred)
    /\ pc' = "done"
    /\ UNCHANGED << extra, world, fields, closers, tasks, phase, attempts, innerCloseChan, deferred,
                    ncAttempts, ch, ttw, elapsed, reconnects, chans >>

\* a Once that only looks at its done flag: a call made while the first call is
\* still running runs the function again
OnceRacy(once) == once # "done"

\* an emitter Close that leaves the listeners in place
EmitterCloseKeeps(e) == [e EXCEPT !.closed = @ + 1]

\* the emitter's Close under e.lock.Lock(): e.listeners = make(map)
EmitterCloseDrops(e) ==
    [e EXCEPT !.closed = @ + 1, !.listeners = [k \in DOMAIN @ |-> << >>]]

\* the basicClient's Close, first half: b.eventEmitter.Close(), which waits in
\* Lock() for the Emit calls that hold the reader lock; the client has been opened
ClientClose(c) ==
    /\ kind = "backoff"
    /\ ~fault
    /\ env.listeners
    /\ pc # "fresh"
    /\ cl[c] = "idle"
    /\ c <= env.closers
    /\ \A i \in DOMAIN emit : emit[i] # "running"
    /\ emitter' = EmitterCloseDrops(emitter)
    /\ cl' = [cl EXCEPT ![c] = "emitter"]
    /\ UNCHANGED << extra, world, inners, fields, emit, connectCalls, runs, locals, chans >>

\* sync.Once.Do runs its function on the first call only
OnceRuns(once) == once = "new"

\* Close, first half: closeOnce.Do and close(b.closeC); under a client it is
\* the second half of the client's Close
BackoffClose(c) ==
    /\ kind = "backoff"
    /\ ~fault
    /\ cl[c] = IF env.listeners THEN "emitter" ELSE "idle"
    /\ c <= env.closers
    /\ cl' = [cl EXCEPT ![c] = "called"]
    /\ IF OnceRuns(closeOnce)
       THEN /\ closeOnce' = "running"
            /\ closeC' = closeC + 1
            /\ fault' = (closeC > 0)
       ELSE UNCHANGED << closeOnce, closeC, fault >>
    /\ UNCHANGED << extra, kind, env, ctxDone, inners, inner, closeReason, locals, chans >>
    /\ UNCHANGED tasks

\* Close, second half: b.inner.Close(), a nil dereference when inner is nil
BackoffCloseInner ==
    /\ kind = "backoff"
    /\ ~fault
    /\ closeOnce = "running"
    /\ IF inner = 0
       THEN fault' = TRUE /\ UNCHANGED inners
       ELSE inners' = InnerClose(inners, inner) /\ UNCHANGED fault
    /\ closeOnce' = "done"
    /\ UNCHANGED << extra, kind, env, ctxDone, inner, closeC, closeReason, closers, tasks, locals,
                    chans >>

\* Close() returns to its caller once the Once is done
CloseReturn(c) ==
    /\ ~fault
    /\ cl[c] = "called"
    /\ closeOnce = "done"
    /\ cl' = [cl EXCEPT ![c] = "returned"]
    /\ UNCHANGED << extra, world, inners, fields, locals, chans >>
    /\ UNCHANGED tasks

\* Send(m) and Recv(m): b.send <- m, b.recv <- m; the message is the call's number
\* the n-th message of a caller; a marked message records the inner handler
\* the backoff handler had when it was passed, when that one had closed
Msg(n) ==
    [n |-> n, dead |-> IF env.marks /\ inner # 0 /\ inners[inner].closed THEN inner ELSE 0]

BackoffCall(op) ==
    /\ kind = "backoff"
    /\ ~fault
    /\ ~waiting[op]
    /\ calls[op] < env[op]
    /\ calls' = [calls EXCEPT ![op] = @ + 1]
    /\ IF op = "Send"
       THEN IF Len(send) < ChanCap
            THEN send' = Append(send, Msg(calls'[op])) /\ UNCHANGED waiting
            ELSE waiting' = [waiting EXCEPT ![op] = TRUE] /\ UNCHANGED send
       ELSE IF Len(recv) < ChanCap
            THEN recv' = Append(recv, Msg(calls'[op])) /\ UNCHANGED waiting
            ELSE waiting' = [waiting EXCEPT ![op] = TRUE] /\ UNCHANGED recv
    /\ IF op = "Send" THEN UNCHANGED recv ELSE UNCHANGED send
    /\ UNCHANGED << extra, world, inners, fields, closers, tasks, locals, delivered >>

\* a blocked b.send <- m or b.recv <- m completes when the channel has room
BackoffCallResume(op) ==
    /\ kind = "backoff"
    /\ ~fault
    /\ waiting[op]
    /\ IF op = "Send"
       THEN Len(send) < ChanCap /\ send' = Append(send, Msg(calls[op])) /\ UNCHANGED recv
       ELSE Len(recv) < ChanCap /\ recv' = Append(recv, Msg(calls[op])) /\ UNCHANGED send
    /\ waiting' = [waiting EXCEPT ![op] = FALSE]
    /\ UNCHANGED << extra, world, inners, fields, closers, tasks, locals, calls, delivered >>

\* ------------------------------------------------------------ event emitter
\* Emit in the goroutine run started for it: e.lock.RLock(), a reader lock that
\* any number of Emit hold together, and the listener is entered; with no
\* listener under the key, the deferred RUnlock and return
Emit_listener(i) ==
    /\ kind = "backoff"
    /\ ~fault
    /\ i \in DOMAIN emit
    /\ emit[i] = "spawned"
    /\ emit' = [emit EXCEPT ![i] = IF emitter.listeners["EventReconnect"] = << >>
                                   THEN "notFound" ELSE "running"]
    /\ UNCHANGED << world, inners, fields, closers, emitter, connectCalls, runs, locals, chans,
                    extra >>

\* Emit: the listener returned, the deferred RUnlock, Emit returns
Emit_return(i) ==
    /\ kind = "backoff"
    /\ ~fault
    /\ i \in DOMAIN emit
    /\ emit[i] = "running"
    /\ emit' = [emit EXCEPT ![i] = "done"]
    /\ UNCHANGED << world, inners, fields, closers, emitter, connectCalls, runs, locals, chans,
                    extra >>

\* the emitter by itself: its event keys
EventKeys == {"EventConnect", "EventReconnect"}

\* NewEventEmitter; on has the event keys of the On calls made, the n-th of
\* which registers listener n, and how many Close calls each came after; closed
\* counts the Close calls
NewEventEmitter ==
    [listeners |-> [k \in EventKeys |-> << >>], on |-> << >>, emits |-> << >>,
     invoked |-> << >>, closed |-> 0]

\* a reader lock that a caller waiting in Lock() does not count
ReadersRunning == {j \in DOMAIN emitter.emits : emitter.emits[j].pc = "listeners"}

\* the Emit calls that hold e.lock.RLock(): those in their loop, a listener of
\* which may be waiting in e.lock.Lock()
Readers == {j \in DOMAIN emitter.emits : emitter.emits[j].pc \in {"listeners", "Lock"}}

\* an On that puts its listener before the others
OnPrepend(ls, event, listener) == [ls EXCEPT ![event] = << listener >> \o @]

\* an On that keeps only the listener it registers
OnReplace(ls, event, listener) == [ls EXCEPT ![event] = << listener >>]

\* On: e.listeners[event] = append(e.listeners[event], listener)
OnAppend(ls, event, listener) == [ls EXCEPT ![event] = Append(@, listener)]

\* On, the whole call, with a listener that does one of the things callbacks
\* do: it holds e.lock.Lock(), which excludes every reader
EmitterOn(event) ==
    /\ kind = "emitter"
    /\ Len(emitter.on) < MaxOn
    /\ Readers = {}
    /\ \E does \in env.callbacks :
           emitter' = [emitter EXCEPT
                          !.on = Append(@, [event |-> event, does |-> does,
                                            closed |-> emitter.closed]),
                          !.listeners = OnAppend(@, event, Len(emitter.on) + 1)]
    /\ UNCHANGED << world, inners, fields, closers, emit, connectCalls, runs, locals,
                    chans, extra >>

\* Emit, up to its loop (the callers emit 1, 2, ... as data): e.lock.RLock(), listeners, found := e.listeners[event];
\* a key that was never appended to is not found: the deferred RUnlock, return;
\* after and closed record how many On and Close calls the call came after;
\* RLock does not return while a caller waits in Lock
EmitterEmit(event, data) ==
    /\ kind = "emitter"
    /\ Len(emitter.emits) < MaxEmit
    /\ \A j \in DOMAIN emitter.emits : emitter.emits[j].pc # "Lock"
    /\ emitter' = [emitter EXCEPT !.emits =
                       Append(@, [event |-> event, data |-> data,
                                  listeners |-> emitter.listeners[event], next |-> 1,
                                  after |-> Len(emitter.on), closed |-> emitter.closed,
                                  pc |-> IF emitter.listeners[event] = << >>
                                         THEN "returned" ELSE "listeners"])]
    /\ UNCHANGED << world, inners, fields, closers, emit, connectCalls, runs, locals,
                    chans, extra >>

\* Emit, one turn of its loop: listener(data); a listener that calls On or
\* Close of this emitter gets to e.lock.Lock() while this Emit holds the reader
\* lock, and stays there; after the last listener the deferred RUnlock and return
EmitterListener(j) ==
    /\ kind = "emitter"
    /\ j \in Readers
    /\ emitter.emits[j].pc = "listeners"
    /\ LET e == emitter.emits[j]
       IN  emitter' =
               [emitter EXCEPT
                   !.invoked = Append(@, [listener |-> e.listeners[e.next],
                                          data |-> e.data, emit |-> j]),
                   !.emits = [@ EXCEPT ![j] =
                                 [e EXCEPT !.next = @ + 1,
                                           !.pc = IF emitter.on[e.listeners[e.next]].does
                                                       \in {"On", "Close"}
                                                  THEN "Lock"
                                                  ELSE IF e.next = Len(e.listeners)
                                                  THEN "returned" ELSE "listeners"]]]
    /\ UNCHANGED << world, inners, fields, closers, emit, connectCalls, runs, locals,
                    chans, extra >>

\* Close, the whole call under e.lock.Lock(): e.listeners = make(map)
EmitterClose ==
    /\ kind = "emitter"
    /\ emitter.closed < env.closers
    /\ Readers = {}
    /\ emitter' = EmitterCloseDrops(emitter)
    /\ UNCHANGED << world, inners, fields, closers, emit, connectCalls, runs, locals,
                    chans, extra >>

\* ------------------------------------------------- reopen-interval handler
\* Connect: innerMu.Lock(), entering newConnectionHandler
ReopenConnect ==
    /\ kind = "reopen"
    /\ ~fault
    /\ pc = "fresh"
    /\ innerMu = "free"
    /\ innerMu' = "W"
    /\ pc' = "connecting"
    /\ phase' = "initial"
    /\ connectCalls' = connectCalls + 1
    /\ UNCHANGED << world, inners, fields, closers, emitter, emit, runs, attempts, innerCloseChan, deferred,
                    ncAttempts, ch, ttw, elapsed, reconnects, chans, connectOnce, conn,
                    closeReasonOnce, rd, wr >>

\* newConnectionHandler, one turn of its loop: a handler from the factory and
\* Connect on it; err is what Connect returns
newConnectionHandler(err) ==
    /\ kind = "reopen"
    /\ ~fault
    /\ pc = "connecting"
    /\ IF err = Nil
       THEN /\ NextId <= env.conns
            /\ inners' = [inners EXCEPT ![NextId] = [NoInner EXCEPT !.st = "connected"]]
            /\ ch' = NextId
            /\ pc' = "connected"
       ELSE /\ env.fails \/ NextId > env.conns
            /\ pc' = "cleanup"
            /\ UNCHANGED << inners, ch >>
    /\ UNCHANGED << extra, world, fields, closers, tasks, phase, attempts, innerCloseChan,
                    deferred, ncAttempts, ttw, elapsed, reconnects, chans >>

\* newConnectionHandler: conn.Close() on the handler that failed, continue
newConnectionHandlerCleanup ==
    /\ kind = "reopen"
    /\ ~fault
    /\ pc = "cleanup"
    /\ pc' = "connecting"
    /\ UNCHANGED << extra, world, inners, fields, closers, tasks, phase, attempts,
                    innerCloseChan, deferred, ncAttempts, ch, ttw, elapsed, reconnects,
                    chans >>

\* Connect: the first handler is assigned, innerMu.Unlock(), go b.run(ctx)
ReopenConnectReturn ==
    /\ kind = "reopen"
    /\ ~fault
    /\ pc = "connected"
    /\ phase = "initial"
    /\ inner' = ch
    /\ ch' = 0
    /\ innerMu' = "free"
    /\ pc' = "spawned"
    /\ runs' = runs + 1
    /\ UNCHANGED << world, inners, closeC, closeOnce, closeReason, closers, emitter, emit,
                    connectCalls, phase,
                    attempts, innerCloseChan, deferred, ncAttempts, ttw, elapsed,
                    reconnects, chans, connectOnce, conn, closeReasonOnce, rd, wr >>

\* Connect called again, the whole call: innerMu.Lock(), newConnectionHandler
\* until a handler connects, b.inner = that handler, innerMu.Unlock(),
\* go b.run(ctx); the loop of the run started here is counted and not followed
ReopenConnectAgain ==
    /\ kind = "reopen"
    /\ ~fault
    /\ connectCalls >= 1
    /\ connectCalls < env.connects
    /\ innerMu = "free"
    /\ NextId <= env.conns
    /\ connectCalls' = connectCalls + 1
    /\ inners' = [inners EXCEPT ![NextId] = [NoInner EXCEPT !.st = "connected"]]
    /\ inner' = NextId
    /\ runs' = runs + 1
    /\ UNCHANGED << extra, world, closeC, closeOnce, closeReason, closers, emitter, emit, locals,
                    chans >>

\* run, up to its loop: closeChan := b.inner.CloseChan()
reopen_start ==
    /\ kind = "reopen"
    /\ ~fault
    /\ pc = "spawned"
    /\ innerCloseChan' = inner
    /\ pc' = "select"
    /\ UNCHANGED << extra, world, inners, fields, closers, tasks, phase, attempts, deferred,
                    ncAttempts, ch, ttw, elapsed, reconnects, chans >>

\* run: case <-ctx.Done(): return, and the deferred ticker Stop
reopen_ctxDone ==
    /\ kind = "reopen"
    /\ ~fault
    /\ pc = "select"
    /\ ctxDone
    /\ pc' = "done"
    /\ UNCHANGED << extra, world, inners, fields, closers, tasks, phase, attempts,
                    innerCloseChan, deferred, ncAttempts, ch, ttw, elapsed, reconnects,
                    chans >>

\* a rotation that closes the handler in use before it connects the next one
reopen_tickerCloseFirst ==
    /\ kind = "reopen"
    /\ ~fault
    /\ pc = "select"
    /\ pc' = "connecting"
    /\ phase' = "ticker"
    /\ inners' = InnerClose(inners, inner)
    /\ UNCHANGED << extra, world, fields, closers, tasks, attempts, innerCloseChan,
                    deferred, ncAttempts, ch, ttw, elapsed, reconnects, chans >>

\* run: case <-b.reopenIntervalTicker.C, entering newConnectionHandler
reopen_ticker ==
    /\ kind = "reopen"
    /\ ~fault
    /\ pc = "select"
    /\ pc' = "connecting"
    /\ phase' = "ticker"
    /\ UNCHANGED << extra, world, inners, fields, closers, tasks, attempts, innerCloseChan,
                    deferred, ncAttempts, ch, ttw, elapsed, reconnects, chans >>

\* run: case <-closeChan, entering newConnectionHandler
reopen_innerClosed ==
    /\ kind = "reopen"
    /\ ~fault
    /\ pc = "select"
    /\ inners[innerCloseChan].closed
    /\ pc' = "connecting"
    /\ phase' = "closed"
    /\ UNCHANGED << extra, world, inners, fields, closers, tasks, attempts, innerCloseChan,
                    deferred, ncAttempts, ch, ttw, elapsed, reconnects, chans >>

\* a rotation that installs the next handler and leaves the old one open
reopen_rotateNoClose ==
    /\ kind = "reopen"
    /\ ~fault
    /\ pc = "connected"
    /\ phase = "ticker"
    /\ innerMu = "free"
    /\ innerMu' = "W"
    /\ pc' = "swap"
    /\ UNCHANGED << world, inners, fields, closers, tasks, phase, attempts, innerCloseChan,
                    deferred, ncAttempts, ch, ttw, elapsed, reconnects, chans, connectOnce,
                    conn, closeReasonOnce, rd, wr >>

\* run, ticker case: innerMu.Lock() and b.inner.Close() on the handler in use
reopen_rotateClose ==
    /\ kind = "reopen"
    /\ ~fault
    /\ pc = "connected"
    /\ phase = "ticker"
    /\ innerMu = "free"
    /\ innerMu' = "W"
    /\ inners' = InnerClose(inners, inner)
    /\ pc' = "swap"
    /\ UNCHANGED << world, fields, closers, tasks, phase, attempts, innerCloseChan, deferred,
                    ncAttempts, ch, ttw, elapsed, reconnects, chans, connectOnce, conn,
                    closeReasonOnce, rd, wr >>

\* run, ticker case: b.inner = nextConnectionHandler, innerMu.Unlock(),
\* closeChan = nextCloseChan
reopen_rotateSwap ==
    /\ kind = "reopen"
    /\ ~fault
    /\ pc = "swap"
    /\ inner' = ch
    /\ innerCloseChan' = ch
    /\ ch' = 0
    /\ innerMu' = "free"
    /\ pc' = "select"
    /\ UNCHANGED << world, inners, closeC, closeOnce, closeReason, closers, tasks, phase,
                    attempts, deferred, ncAttempts, ttw, elapsed, reconnects, chans,
                    connectOnce, conn, closeReasonOnce, rd, wr >>

\* run, closeChan case: closeChan = conn.CloseChan() and b.inner = conn under
\* innerMu.Lock()
reopen_replace ==
    /\ kind = "reopen"
    /\ ~fault
    /\ pc = "connected"
    /\ phase = "closed"
    /\ innerMu = "free"
    /\ inner' = ch
    /\ innerCloseChan' = ch
    /\ ch' = 0
    /\ pc' = "select"
    /\ UNCHANGED << extra, world, inners, closeC, closeOnce, closeReason, closers, tasks,
                    phase, attempts, deferred, ncAttempts, ttw, elapsed, reconnects,
                    chans >>

\* Close, safeClose: closeOnce.Do(b.close) and close(b.closeC)
ReopenClose(c) ==
    /\ kind = "reopen"
    /\ ~fault
    /\ cl[c] = "idle"
    /\ c <= env.closers
    /\ cl' = [cl EXCEPT ![c] = "called"]
    /\ IF OnceRuns(closeOnce)
       THEN /\ closeOnce' = "running"
            /\ closeC' = closeC + 1
            /\ fault' = (closeC > 0)
       ELSE UNCHANGED << closeOnce, closeC, fault >>
    /\ UNCHANGED << extra, kind, env, ctxDone, inners, inner, closeReason, locals,
                    chans >>
    /\ UNCHANGED tasks

\* close: innerMu.RLock()
ReopenCloseRLock ==
    /\ kind = "reopen"
    /\ ~fault
    /\ closeOnce = "running"
    /\ innerMu = "free"
    /\ innerMu' = "R"
    /\ closeOnce' = "locked"
    /\ UNCHANGED << world, inners, inner, closeC, closeReason, closers, tasks, locals, chans,
                    connectOnce, conn, closeReasonOnce, rd, wr >>

\* close: b.inner.Close(), a nil dereference when inner is nil, innerMu.RUnlock()
ReopenCloseInner ==
    /\ kind = "reopen"
    /\ ~fault
    /\ closeOnce = "locked"
    /\ IF inner = 0
       THEN fault' = TRUE /\ UNCHANGED inners
       ELSE inners' = InnerClose(inners, inner) /\ UNCHANGED fault
    /\ innerMu' = "free"
    /\ closeOnce' = "done"
    /\ UNCHANGED << kind, env, ctxDone, inner, closeC, closeReason, closers, tasks, locals,
                    chans, connectOnce, conn, closeReasonOnce, rd, wr >>

\* ------------------------------------------------ active keep-alive handler
\* Connect: connectOnce.Do: err = h.ConnectionHandler.Connect(ctx), go h.run(ctx);
\* err is what the inner Connect returns
KeepAliveConnect(err) ==
    /\ kind = "activeKeepAlive"
    /\ ~fault
    /\ connectCalls < env.connects
    /\ connectCalls' = connectCalls + 1
    /\ IF OnceRuns(connectOnce)
       THEN /\ connectOnce' = "done"
            /\ inners' = [inners EXCEPT ![inner] =
                              [@ EXCEPT !.st = IF err = Nil THEN "connected" ELSE "failed"]]
            /\ runs' = runs + 1
            /\ pc' = "select"
       ELSE UNCHANGED << connectOnce, inners, runs, pc >>
    /\ UNCHANGED << world, fields, closers, emitter, emit, phase, attempts, innerCloseChan, deferred,
                    ncAttempts, ch, ttw, elapsed, reconnects, chans, innerMu, conn,
                    closeReasonOnce, rd, wr >>

\* run: case <-ctx.Done(): return
keepAlive_ctxDone ==
    /\ kind = "activeKeepAlive"
    /\ ~fault
    /\ pc = "select"
    /\ ctxDone
    /\ pc' = "done"
    /\ UNCHANGED << extra, world, inners, fields, closers, tasks, phase, attempts,
                    innerCloseChan, deferred, ncAttempts, ch, ttw, elapsed, reconnects,
                    chans >>

\* run: case <-ticker.C: h.ConnectionHandler.Send(h.keepAliveMessageFactory())
keepAlive_ticker ==
    /\ kind = "activeKeepAlive"
    /\ ~fault
    /\ pc = "select"
    /\ Len(delivered) < MaxPings
    /\ delivered' = Append(delivered, [to |-> inner, op |-> "Send", m |-> 0])
    /\ UNCHANGED << extra, world, inners, fields, closers, tasks, locals, send, recv, calls,
                    waiting >>

\* run: case <-h.closeC: return
keepAlive_closeC ==
    /\ kind = "activeKeepAlive"
    /\ ~fault
    /\ pc = "select"
    /\ closeC > 0
    /\ pc' = "done"
    /\ UNCHANGED << extra, world, inners, fields, closers, tasks, phase, attempts,
                    innerCloseChan, deferred, ncAttempts, ch, ttw, elapsed, reconnects,
                    chans >>

\* Close, first half: closeOnce.Do and h.ConnectionHandler.Close()
KeepAliveClose(c) ==
    /\ kind = "activeKeepAlive"
    /\ ~fault
    /\ cl[c] = "idle"
    /\ c <= env.closers
    /\ cl' = [cl EXCEPT ![c] = "called"]
    /\ IF OnceRuns(closeOnce)
       THEN /\ closeOnce' = "running"
            /\ inners' = InnerClose(inners, inner)
       ELSE UNCHANGED << closeOnce, inners >>
    /\ UNCHANGED << extra, world, inner, closeC, closeReason, locals, chans >>
    /\ UNCHANGED tasks

\* Close, second half: close(h.closeC)
KeepAliveCloseChan ==
    /\ kind = "activeKeepAlive"
    /\ ~fault
    /\ closeOnce = "running"
    /\ closeC' = closeC + 1
    /\ fault' = (closeC > 0)
    /\ closeOnce' = "done"
    /\ UNCHANGED << extra, kind, env, ctxDone, inners, inner, closeReason, closers, tasks,
                    locals, chans >>

\* ----------------------------------------------- passive keep-alive handler
\* the types of message.go and some payloads
AllMessageTypes ==
    {"PingMessage", "PongMessage", "BinaryMessage", "DataMessage", "CloseError"}

Payloads == {<< >>, <<1>>, <<1, 2>>}

NewMessage(mt, data) == [type |-> mt, data |-> data]

NewPongMessage(data) == NewMessage("PongMessage", data)

Messages == {NewMessage(mt, data) : mt \in AllMessageTypes, data \in Payloads}

\* a policy that replies to a ping with a pong that has no payload
KeepAliveHandlerReplyEmptyPong(log, h, m) ==
    IF m.type = "PingMessage"
    THEN Append(log, [to |-> h, op |-> "Send", m |-> NewPongMessage(<< >>)])
    ELSE log

\* the policy KeepAliveHandlerReplyPingWithPong on handler h; log is what the
\* inner handlers received so far
KeepAliveHandlerReplyPingWithPong(log, h, m) ==
    IF m.type = "PingMessage"
    THEN Append(log, [to |-> h, op |-> "Send", m |-> NewPongMessage(m.data)])
    ELSE log

\* a Recv that forwards the message and invokes the policy afterwards
PassiveRecvForwardFirst(m) ==
    /\ kind = "passiveKeepAlive"
    /\ ~fault
    /\ calls["Recv"] < env.Recv
    /\ calls' = [calls EXCEPT !["Recv"] = @ + 1]
    /\ delivered' = KeepAliveHandlerReplyPingWithPong(
                        Append(delivered, [to |-> inner, op |-> "Recv", m |-> m]), inner, m)
    /\ UNCHANGED << extra, world, inners, fields, closers, tasks, locals, send, recv,
                    waiting >>

\* Recv: h.handler(h.ConnectionHandler, m), then h.ConnectionHandler.Recv(m)
PassiveRecv(m) ==
    /\ kind = "passiveKeepAlive"
    /\ ~fault
    /\ calls["Recv"] < env.Recv
    /\ calls' = [calls EXCEPT !["Recv"] = @ + 1]
    /\ delivered' = Append(KeepAliveHandlerReplyPingWithPong(delivered, inner, m),
                           [to |-> inner, op |-> "Recv", m |-> m])
    /\ UNCHANGED << extra, world, inners, fields, closers, tasks, locals, send, recv,
                    waiting >>

\* --------------------------------------------------------------- basicClient
Is(t, other) == t = other

\* an IsData that takes binary messages for data
IsDataOrBinary(t) == Is(t, "DataMessage") \/ Is(t, "BinaryMessage")

IsData(t) == Is(t, "DataMessage")

\* handlerWrapper of createConnectionHandler, called by the connection with an
\* inbound message: b.messageHandler(cli, m) or b.connectionHandler.Recv(m)
handlerWrapper(m) ==
    /\ kind = "client"
    /\ ~fault
    /\ calls["Recv"] < env.Recv
    /\ calls' = [calls EXCEPT !["Recv"] = @ + 1]
    /\ delivered' = IF IsData(m.type)
                    THEN Append(delivered, [to |-> 0, op |-> "messageHandler", m |-> m])
                    ELSE Append(delivered, [to |-> inner, op |-> "Recv", m |-> m])
    /\ UNCHANGED << extra, world, inners, fields, closers, tasks, locals, send, recv,
                    waiting >>

\* ------------------------------------------------------------ WsConnection
\* Open, start: the dial; err is what handleDialError returns.  On success the
\* read and write goroutines are started.
WsOpen(err) ==
    /\ kind = "ws"
    /\ ~fault
    /\ pc = "fresh"
    /\ IF err = Nil
       THEN conn' = "open" /\ rd' = "select" /\ wr' = "select" /\ pc' = "open"
       ELSE pc' = "failed" /\ UNCHANGED << conn, rd, wr >>
    /\ UNCHANGED << world, inners, fields, closers, tasks, phase, attempts, innerCloseChan,
                    deferred, ncAttempts, ch, ttw, elapsed, reconnects, chans, innerMu,
                    connectOnce, closeReasonOnce >>

\* setCloseReason: closeReasonOnce.Do(w.closeReason = err)
setCloseReason(err) ==
    /\ closeReason' = IF OnceRuns(closeReasonOnce) THEN err ELSE closeReason
    /\ closeReasonOnce' = "done"

\* safeClose, close's first half: closeOnce.Do and w.conn.Close(), a nil
\* dereference when the connection was never opened
safeClose ==
    IF OnceRuns(closeOnce)
    THEN /\ closeOnce' = "running"
         /\ IF conn = "nil"
            THEN fault' = TRUE /\ UNCHANGED conn
            ELSE conn' = "closed" /\ UNCHANGED fault
    ELSE UNCHANGED << closeOnce, conn, fault >>

\* close's second half: close(w.closeChan)
WsCloseChan ==
    /\ kind = "ws"
    /\ ~fault
    /\ closeOnce = "running"
    /\ closeC' = closeC + 1
    /\ fault' = (closeC > 0)
    /\ closeOnce' = "done"
    /\ UNCHANGED << kind, env, ctxDone, inners, inner, closeReason, closers, tasks, locals,
                    chans, innerMu, connectOnce, conn, closeReasonOnce, rd, wr >>

\* Close: safeClose
WsClose(c) ==
    /\ kind = "ws"
    /\ ~fault
    /\ cl[c] = "idle"
    /\ c <= env.closers
    /\ cl' = [cl EXCEPT ![c] = "called"]
    /\ safeClose
    /\ UNCHANGED << kind, env, ctxDone, inners, inner, closeC, closeReason, locals,
                    chans, innerMu, connectOnce, closeReasonOnce, rd, wr >>
    /\ UNCHANGED tasks

\* read: case <-w.closeChan and case <-ctx.Done(): setCloseReason(ErrTerminated),
\* return
read_terminated ==
    /\ kind = "ws"
    /\ ~fault
    /\ rd = "select"
    /\ closeC > 0 \/ ctxDone
    /\ setCloseReason(ErrTerminated)
    /\ rd' = "exit"
    /\ UNCHANGED << world, inners, inner, closeC, closeOnce, closers, tasks, locals, chans,
                    innerMu, connectOnce, conn, wr >>

\* read: default, no other case being ready: w.conn.ReadMessage() is entered
read_default ==
    /\ kind = "ws"
    /\ ~fault
    /\ rd = "select"
    /\ closeC = 0
    /\ ~ctxDone
    /\ rd' = "reading"
    /\ UNCHANGED << world, inners, fields, closers, tasks, locals, chans, innerMu,
                    connectOnce, conn, closeReasonOnce, wr >>

\* read: ReadMessage returns a frame, pushed to w.recv; the frame is its number
read_frame ==
    /\ kind = "ws"
    /\ ~fault
    /\ rd = "reading"
    /\ conn = "open"
    /\ calls["Recv"] < env["Recv"]
    /\ calls' = [calls EXCEPT !["Recv"] = @ + 1]
    /\ delivered' = Append(delivered, [to |-> 0, op |-> "recv", m |-> calls'["Recv"]])
    /\ rd' = "select"
    /\ UNCHANGED << world, inners, fields, closers, tasks, locals, send, recv, waiting,
                    innerMu, connectOnce, conn, closeReasonOnce, wr >>

\* read: ReadMessage returns an error: the socket was closed, or the network failed
read_error ==
    /\ kind = "ws"
    /\ ~fault
    /\ rd = "reading"
    /\ conn = "closed" \/ ~env.stable
    /\ setCloseReason(Wrap(ErrConnectionClosed, "error occurred on websocket read"))
    /\ rd' = "exit"
    /\ UNCHANGED << world, inners, inner, closeC, closeOnce, closers, tasks, locals, chans,
                    innerMu, connectOnce, conn, wr >>

\* read returns: the deferred safeClose
read_exit ==
    /\ kind = "ws"
    /\ ~fault
    /\ rd = "exit"
    /\ safeClose
    /\ rd' = "closing"
    /\ UNCHANGED << kind, env, ctxDone, inners, inner, closeC, closeReason, closers, tasks,
                    locals, chans, innerMu, connectOnce, closeReasonOnce, wr >>

\* read's safeClose returns once the Once is done
read_done ==
    /\ kind = "ws"
    /\ ~fault
    /\ rd = "closing"
    /\ closeOnce = "done"
    /\ rd' = "done"
    /\ UNCHANGED << world, inners, fields, closers, tasks, locals, chans, innerMu,
                    connectOnce, conn, closeReasonOnce, wr >>

\* Write(m): w.send <- m on the unbuffered channel; t is the message's type
MessageTypes == {"PingMessage", "PongMessage", "DataMessage"}

WsWrite(t) ==
    /\ kind = "ws"
    /\ ~fault
    /\ pc = "open"
    /\ ~waiting["Send"]
    /\ calls["Send"] < env["Send"]
    /\ calls' = [calls EXCEPT !["Send"] = @ + 1]
    /\ send' = << t >>
    /\ waiting' = [waiting EXCEPT !["Send"] = TRUE]
    /\ UNCHANGED << extra, world, inners, fields, closers, tasks, locals, recv, delivered >>

\* what the socket answers to a write
WriteOutcomes == {"ok", "temporary", "goingAway", "failure"}

\* the err write is left with for a message of type t: a temporary net.Error
\* on a ping is dropped
writeErr(t, outcome) ==
    IF outcome = "ok" \/ (outcome = "temporary" /\ t = "PingMessage")
    THEN "nil"
    ELSE IF outcome = "goingAway" THEN "closeError" ELSE "error"

\* write: case <-w.closeChan and case <-ctx.Done(): setCloseReason(ErrTerminated),
\* return
write_terminated ==
    /\ kind = "ws"
    /\ ~fault
    /\ wr = "select"
    /\ closeC > 0 \/ ctxDone
    /\ setCloseReason(ErrTerminated)
    /\ wr' = "exit"
    /\ UNCHANGED << world, inners, inner, closeC, closeOnce, closers, tasks, locals, chans,
                    innerMu, connectOnce, conn, rd >>

\* write: case msg := <-w.send: the frame is written; on an error the close
\* reason is set and the loop goes on
write_msg(outcome) ==
    /\ kind = "ws"
    /\ ~fault
    /\ wr = "select"
    /\ send # << >>
    /\ outcome = "ok" => conn = "open"
    /\ outcome # "ok" => (conn = "closed" \/ ~env.stable)
    /\ send' = << >>
    /\ waiting' = [waiting EXCEPT !["Send"] = FALSE]
    /\ IF writeErr(Head(send), outcome) = "nil"
       THEN UNCHANGED << closeReason, closeReasonOnce >>
       ELSE IF writeErr(Head(send), outcome) = "closeError"
            THEN setCloseReason(ErrConnectionClosed)
            ELSE setCloseReason(Wrap(ErrConnectionClosed, "write"))
    /\ UNCHANGED << world, inners, inner, closeC, closeOnce, closers, tasks, locals, recv,
                    calls, delivered, innerMu, connectOnce, conn, rd, wr >>

\* write returns: the deferred safeClose
write_exit ==
    /\ kind = "ws"
    /\ ~fault
    /\ wr = "exit"
    /\ safeClose
    /\ wr' = "closing"
    /\ UNCHANGED << kind, env, ctxDone, inners, inner, closeC, closeReason, closers, tasks,
                    locals, chans, innerMu, connectOnce, closeReasonOnce, rd >>

\* write's safeClose returns once the Once is done
write_done ==
    /\ kind = "ws"
    /\ ~fault
    /\ wr = "closing"
    /\ closeOnce = "done"
    /\ wr' = "done"
    /\ UNCHANGED << world, inners, fields, closers, tasks, locals, chans, innerMu,
                    connectOnce, conn, closeReasonOnce, rd >>

\* ------------------------------------------------------------ environments
Ops == {"Send", "Recv"}

Kinds ==
    {"backoff", "reopen", "activeKeepAlive", "passiveKeepAlive", "ws", "emitter", "client"}

\* What the callers and the network do: Send and Recv count the calls made,
\* closers the goroutines that call Close(); the network lets conns connections
\* through and then refuses them, refuses some before when fails is set, keeps
\* them up when stable is set; timed says whether connections get to live long;
\* callbacks is what the listeners registered with an emitter may do.
\* Close() from several goroutines, no traffic, a network that fails
Lifecycle ==
    [Send |-> 0, Recv |-> 0, closers |-> NumClosers, conns |-> MaxInner,
     stable |-> FALSE, fails |-> TRUE, timed |-> FALSE, listeners |-> FALSE, connects |-> 1,
     marks |-> FALSE, callbacks |-> {}]

\* connections that come and go while time passes, nobody calling Close
Timing == [Lifecycle EXCEPT !.closers = 0, !.timed = TRUE]

\* a Send and a Recv over connections that come and go, each message marked
\* with what its caller could see
Repairs ==
    [Send |-> 1, Recv |-> 1, closers |-> 0, conns |-> 2, stable |-> FALSE, fails |-> FALSE,
     timed |-> FALSE, listeners |-> FALSE, connects |-> 1, marks |-> TRUE,
     callbacks |-> {}]

\* a few Send and Recv calls over connections that come and go
Traffic ==
    [Send |-> MaxCalls, Recv |-> MaxCalls, closers |-> 1, conns |-> MaxInner,
     stable |-> FALSE, fails |-> FALSE, timed |-> FALSE, listeners |-> FALSE, connects |-> 1,
     marks |-> FALSE, callbacks |-> {}]

\* the same with calls of one kind only: the two channels of the backoff
\* handler do not meet
Outbound == [Traffic EXCEPT !.Recv = 0]

Inbound == [Traffic EXCEPT !.Send = 0, !.Recv = MaxCalls + 1]

\* Send calls that outnumber the channel's capacity, on a network that lets one
\* connection through and keeps it up
Flood ==
    [Send |-> ChanCap + 1, Recv |-> 0, closers |-> 1, conns |-> 1, stable |-> TRUE,
     fails |-> FALSE, timed |-> FALSE, listeners |-> FALSE, connects |-> 1,
     marks |-> FALSE, callbacks |-> {}]

\* connections that come and go under a client that listens to EventReconnect
Events ==
    [Send |-> 0, Recv |-> 0, closers |-> 0, conns |-> MaxInner + 1, stable |-> FALSE,
     fails |-> FALSE, timed |-> FALSE, listeners |-> TRUE, connects |-> 1,
     marks |-> FALSE, callbacks |-> {}]

\* a connection and its replacement under a client that calls Close
Closing == [Events EXCEPT !.closers = 1, !.conns = 2]

\* a caller that calls Connect once more
Twice ==
    [Send |-> 0, Recv |-> 0, closers |-> 0, conns |-> MaxInner, stable |-> FALSE,
     fails |-> FALSE, timed |-> FALSE, listeners |-> FALSE, connects |-> 2,
     marks |-> FALSE, callbacks |-> {}]

\* a connection that hands its control messages to the handler
Pings ==
    [Send |-> 0, Recv |-> MaxCalls + 1, closers |-> 0, conns |-> 1, stable |-> TRUE,
     fails |-> FALSE, timed |-> FALSE, listeners |-> FALSE, connects |-> 0,
     marks |-> FALSE, callbacks |-> {}]

\* goroutines that register, emit and close on an emitter
Emitting ==
    [Send |-> 0, Recv |-> 0, closers |-> 1, conns |-> 0, stable |-> TRUE,
     fails |-> FALSE, timed |-> FALSE, listeners |-> TRUE, connects |-> 0,
     marks |-> FALSE, callbacks |-> {"returns"}]

\* the same with listeners that call On or Close on the emitter they are
\* registered with
Reentrant == [Emitting EXCEPT !.closers = 0, !.callbacks = {"On", "Close"}]

\* a socket that fails only once it has been closed, under one caller of Close()
Steady == [Traffic EXCEPT !.stable = TRUE, !.Recv = MaxCalls + 1]

\* what the callers and the network do to a handler of kind k
Profiles(k) ==
    CASE k = "backoff" -> {Lifecycle, Timing, Outbound, Inbound, Flood, Events, Closing,
                            Repairs}
      [] k \in {"passiveKeepAlive", "client"} -> {Pings}
      [] k = "emitter" -> {Emitting, Reentrant}
      [] k = "ws" -> {[Traffic EXCEPT !.closers = NumClosers, !.fails = TRUE,
                                      !.Recv = MaxCalls + 1], Steady}
      [] OTHER -> {Lifecycle, Twice}

\* the state after construction: newBackoffConnectionHandler, newReopenIntervalConn,
\* newActiveKeepAliveConnectionHandler (its inner handler is built with it),
\* NewWebsocketConnection
Init ==
    /\ kind \in Kinds
    /\ env \in Profiles(kind)
    /\ ctxDone = FALSE
    /\ fault = FALSE
    /\ inners = [i \in InnerIds |->
                    IF kind \in {"activeKeepAlive", "passiveKeepAlive", "client"} /\ i = 1
                    THEN [NoInner EXCEPT !.st = "new"]
                    ELSE NoInner]
    /\ inner = IF kind \in {"activeKeepAlive", "passiveKeepAlive", "client"} THEN 1 ELSE 0
    /\ closeC = 0
    /\ closeOnce = "new"
    /\ closeReason = Nil
    /\ cl = [c \in Closers |-> "idle"]
    /\ pc = "fresh"
    /\ phase = "initial"
    /\ attempts = 0
    /\ innerCloseChan = 0
    /\ deferred = 0
    /\ ncAttempts = 0
    /\ ch = 0
    /\ ttw = 0
    /\ elapsed = 0
    /\ reconnects = 0
    /\ send = << >>
    /\ recv = << >>
    /\ calls = [op \in Ops |-> 0]
    /\ waiting = [op \in Ops |-> FALSE]
    /\ delivered = << >>
    /\ innerMu = "free"
    /\ connectOnce = "new"
    /\ conn = "nil"
    /\ closeReasonOnce = "new"
    /\ rd = "none"
    /\ wr = "none"
    /\ emit = << >>
    /\ connectCalls = 0
    /\ runs = 0
    /\ emitter = NewEventEmitter

\* the network and the context
World ==
    \/ CtxCancel
    \/ \E i \in InnerIds, r \in CloseReasons : InnerDies(i, r)
    \/ Tick

Backoff ==
    \/ BackoffConnect
    \/ \E err \in ConnectErrors \cup {Nil} : newConnHandler(err)
    \/ newConnHandlerSleep
    \/ BackoffConnectReturn
    \/ run_start
    \/ run_ctxDone
    \/ run_closeC
    \/ run_recv
    \/ run_send
    \/ run_innerClosed
    \/ run_sleep
    \/ run_reopened
    \/ run_exit
    \/ \E c \in Closers : ClientClose(c)
    \/ \E c \in Closers : BackoffClose(c)
    \/ BackoffCloseInner
    \/ \E op \in Ops : BackoffCall(op)
    \/ \E op \in Ops : BackoffCallResume(op)
    \/ \E i \in InnerIds : Emit_listener(i)
    \/ \E i \in InnerIds : Emit_return(i)

Reopen ==
    \/ ReopenConnect
    \/ ReopenConnectAgain
    \/ \E err \in ConnectErrors \cup {Nil} : newConnectionHandler(err)
    \/ newConnectionHandlerCleanup
    \/ ReopenConnectReturn
    \/ reopen_start
    \/ reopen_ctxDone
    \/ reopen_ticker
    \/ reopen_innerClosed
    \/ reopen_rotateClose
    \/ reopen_rotateSwap
    \/ reopen_replace
    \/ \E c \in Closers : ReopenClose(c)
    \/ ReopenCloseRLock
    \/ ReopenCloseInner

KeepAlive ==
    \/ \E err \in ConnectErrors \cup {Nil} : KeepAliveConnect(err)
    \/ keepAlive_ctxDone
    \/ keepAlive_ticker
    \/ keepAlive_closeC
    \/ \E c \in Closers : KeepAliveClose(c)
    \/ KeepAliveCloseChan

PassiveKeepAlive ==
    \E m \in Messages : PassiveRecv(m)

Client ==
    \E m \in Messages : handlerWrapper(m)

Emitter ==
    \/ \E event \in EventKeys : EmitterOn(event)
    \/ \E event \in EventKeys : EmitterEmit(event, Len(emitter.emits) + 1)
    \/ \E j \in 1..MaxEmit : EmitterListener(j)
    \/ EmitterClose

Ws ==
    \/ \E err \in ConnectErrors \cup {Nil} : WsOpen(err)
    \/ \E c \in Closers : WsClose(c)
    \/ WsCloseChan
    \/ read_terminated
    \/ read_default
    \/ read_frame
    \/ read_error
    \/ read_exit
    \/ read_done
    \/ \E t \in MessageTypes : WsWrite(t)
    \/ write_terminated
    \/ \E outcome \in WriteOutcomes : write_msg(outcome)
    \/ write_exit
    \/ write_done

Next ==
    \/ World
    \/ Backoff
    \/ Reopen
    \/ KeepAlive
    \/ PassiveKeepAlive
    \/ Emitter
    \/ Client
    \/ Ws
    \/ \E c \in Closers : CloseReturn(c)

Spec == Init /\ [][Next]_vars

\* the goroutine that runs the backoff handler's loops: Connect up to its
\* return, then run
BackoffRun ==
    \/ \E err \in ConnectErrors \cup {Nil} : newConnHandler(err)
    \/ newConnHandlerSleep
    \/ BackoffConnectReturn
    \/ run_start
    \/ run_ctxDone
    \/ run_closeC
    \/ run_recv
    \/ run_send
    \/ run_innerClosed
    \/ run_sleep
    \/ run_reopened
    \/ run_exit

\* the same for the reopen-interval handler; its ticker fires when it wants to
ReopenRun ==
    \/ \E err \in ConnectErrors \cup {Nil} : newConnectionHandler(err)
    \/ newConnectionHandlerCleanup
    \/ ReopenConnectReturn
    \/ reopen_start
    \/ reopen_ctxDone
    \/ reopen_innerClosed
    \/ reopen_rotateClose
    \/ reopen_rotateSwap
    \/ reopen_replace

\* the Go scheduler runs every goroutine that can run: the loops, a Close() or
\* a Send() in progress; and a select that is entered again and again with
\* ctx.Done() ready ends up choosing it
Fairness ==
    /\ WF_vars(BackoffRun)
    /\ WF_vars(BackoffCloseInner)
    /\ WF_vars(\E op \in Ops : BackoffCallResume(op))
    /\ WF_vars(ReopenRun)
    /\ WF_vars(ReopenCloseRLock \/ ReopenCloseInner)
    /\ WF_vars(keepAlive_ctxDone \/ keepAlive_closeC)
    /\ WF_vars(KeepAliveCloseChan)
    /\ WF_vars(\E c \in Closers : CloseReturn(c))
    /\ SF_vars(run_ctxDone)
    /\ SF_vars(reopen_ctxDone)

FairSpec == Init /\ [][Next]_vars /\ Fairness

\* ------------------------------------------------------------------- claims
\* C1: Close() is idempotent on the backoff, reopen-interval and active
\* keep-alive handlers and on WsConnection: the close channel is closed exactly
\* once however many goroutines call Close(), a Close() that returned left it
\* closed, and a Close() made after the first completed changes nothing.
C1_CloseOnce ==
    /\ [](closeC <= 1 /\ ((\E c \in Closers : cl[c] = "returned") => closeC = 1))
    /\ [][(\E c \in Closers : cl[c] = "idle" /\ cl'[c] = "called" /\ closeOnce = "done")
             => UNCHANGED << world, inners, fields, locals, chans, extra >>]_vars

\* two goroutines called Close() on a reopen-interval handler and both returned
C1_Witness ==
    /\ kind = "reopen"
    /\ \A c \in Closers : cl[c] = "returned"
    /\ closeC = 1
    /\ ~fault

\* C2: once Close() has completed on a connected backoff handler, the handler
\* creates no new inner handler and emits no EventReconnect.
C2_ClosedIsTerminal ==
    [][(kind = "backoff" /\ closeOnce = "done" /\ ~fault)
          => (NextId' = NextId /\ reconnects' = reconnects)]_vars

\* C3: once Close() has completed on a reopen-interval handler, its run
\* goroutine installs no replacement inner handler.
C3_CloseStopsRun ==
    [][(kind = "reopen" /\ closeOnce = "done" /\ ~fault)
          => (NextId' = NextId /\ inner' = inner)]_vars

\* C4: after ctx is cancelled the main loop of a backoff, reopen-interval or
\* active keep-alive handler that is running ends, whether it waits in its
\* select or retries Connect calls that keep failing.
C4_CtxEndsLoop ==
    (/\ kind \in {"backoff", "reopen", "activeKeepAlive"}
     /\ ctxDone
     /\ pc \notin {"fresh", "done"}
     /\ ~(phase = "initial" /\ pc \in {"connecting", "nc_sleep", "cleanup", "connected"}))
    ~> (pc = "done" \/ fault)

\* C5: when ctx is cancelled under a running handler that nobody closes, then
\* once its loop has ended on ctx the channel its CloseChan() returns is closed
\* and its CloseErr() is ErrTerminated.  Stated for the backoff and the
\* reopen-interval handler, which own the channel; the active keep-alive
\* handler hands out the channel and the reason of its inner handler.
C5_CtxCancelCloses ==
    (/\ kind \in {"backoff", "reopen"}
     /\ ctxDone
     /\ pc = "done"
     /\ \A c \in Closers : cl[c] = "idle")
    => /\ closeC = 1
       /\ IF kind = "backoff"
          THEN closeReason = ErrTerminated
          ELSE inners[inner].err = ErrTerminated

\* C6: once a backoff handler has been closed, by Close() or by ctx, and its run
\* loop has exited, every inner handler it connected has had Close() called.
C6_CloseCascades ==
    (kind = "backoff" /\ pc = "done" /\ closeOnce \in {"new", "done"} /\ ~fault)
    => Unclosed = {}

\* C7: a Send or Recv call on a connected backoff handler that has to wait for
\* room in its channel ends up returning.
C7_CallsReturn ==
    \A op \in Ops :
        (kind = "backoff" /\ inner # 0 /\ waiting[op]) ~> (~waiting[op] \/ fault)

\* C8: in the repair step of the backoff run loop, with r the reason the inner
\* closed with and d the time its connection lived: the counter becomes 0 when
\* r is ErrConnectionClosed or ErrTerminated and d > connDurationThreshold, grows
\* by 1 when r is one of the two and d <= connDurationThreshold, is unchanged for
\* every other r, nil included; the wait is calculator of the updated counter.
C8_RepairCounter ==
    [][(kind = "backoff" /\ pc = "select" /\ pc' = "rep_sleep")
          => LET r == inners[inner].err
                 d == elapsed
                 natural == ErrorsIs(r, ErrConnectionClosed) \/ ErrorsIs(r, ErrTerminated)
             IN  /\ closeReason' = r
                 /\ (natural /\ d > connDurationThreshold) => attempts' = 0
                 /\ (natural /\ d <= connDurationThreshold) => attempts' = attempts + 1
                 /\ ~natural => attempts' = attempts
                 /\ ttw' = calculator(attempts')]_vars

\* after a short-lived connection and a long-lived one, both ended by
\* ErrConnectionClosed, the counter is back to 0
C8_Witness ==
    /\ kind = "backoff"
    /\ pc = "rep_sleep"
    /\ reconnects = 1
    /\ ~inners[1].long /\ ErrorsIs(inners[1].err, ErrConnectionClosed)
    /\ inners[2].long /\ ErrorsIs(inners[2].err, ErrConnectionClosed)
    /\ attempts = 0
    /\ ttw = calculator(0)

\* C9: while every inner handler a backoff handler connected has closed with
\* ErrConnectionClosed before connDurationThreshold elapsed, the counter after
\* the k-th closure is k, and the wait before connection attempt k + 1 is
\* calculator(k).
C9_CounterGrows ==
    (/\ kind = "backoff"
     /\ pc = "rep_sleep"
     /\ \A i \in 1..(NextId - 1) :
            ErrorsIs(inners[i].err, ErrConnectionClosed) /\ ~inners[i].long)
    => (attempts = NextId - 1 /\ ttw = calculator(NextId - 1))

\* the second connection in a row died young with ErrConnectionClosed
C9_Witness ==
    /\ kind = "backoff"
    /\ pc = "rep_sleep"
    /\ NextId - 1 = 2
    /\ \A i \in 1..2 : ErrorsIs(inners[i].err, ErrConnectionClosed) /\ ~inners[i].long
    /\ attempts = 2
    /\ ttw = calculator(2)

\* C10: in the connecting loop of the backoff handler a Connect failure that is
\* or wraps ErrCannotConnect is followed by a wait of one second whatever the
\* number of attempts, and the loop leaves a wait only for a new attempt and an
\* attempt only for a wait or with a connected handler.
C10_CannotConnectWait ==
    [][/\ (\E err \in {e \in ConnectErrors : ErrorsIs(e, ErrCannotConnect)} :
               newConnHandler(err))
           => (pc' = "nc_sleep" /\ ttw' = OneSecond)
       /\ (kind = "backoff" /\ pc = "nc_sleep") => pc' \in {"nc_sleep", "connecting"}
       /\ (kind = "backoff" /\ pc = "connecting")
            => pc' \in {"connecting", "nc_sleep", "connected"}]_vars

\* the third failure in a row, where the calculator would wait three seconds
C10_Witness ==
    /\ kind = "backoff"
    /\ pc = "nc_sleep"
    /\ ncAttempts = 3
    /\ calculator(ncAttempts) # OneSecond
    /\ ttw = OneSecond

\* C11: in the connecting loop of the backoff handler, a Connect failure that
\* is not ErrCannotConnect at the k-th attempt of the phase is followed by a
\* wait of calculator(k); with ExponentialBackoffSeconds the waits after
\* attempts 1, 2, 3 are 0 s, 1 s, 3 s.
C11_CalculatedWait ==
    [][(\E err \in {e \in ConnectErrors : ~ErrorsIs(e, ErrCannotConnect)} :
            newConnHandler(err))
          => /\ ncAttempts' = ncAttempts + 1
             /\ pc' = "nc_sleep"
             /\ ttw' = calculator(ncAttempts')
             /\ ncAttempts' = 1 => ttw' = 0 * OneSecond
             /\ ncAttempts' = 2 => ttw' = 1 * OneSecond
             /\ ncAttempts' = 3 => ttw' = 3 * OneSecond]_vars

\* the third attempt of a phase failed and the loop waits three seconds
C11_Witness ==
    /\ kind = "backoff"
    /\ pc = "nc_sleep"
    /\ ncAttempts = 3
    /\ ttw = 3 * OneSecond

\* C12: a Connect failure that wraps ErrRateLimit gets the wait of
\* ErrCannotConnect in the connecting loop of the backoff handler, one second,
\* and not the wait of the calculator.
C12_RateLimitWait ==
    [][newConnHandler(Wrap(ErrRateLimit, "body")) => ttw' = OneSecond]_vars

C14_ReconnectEvents ==
    /\ [](kind = "backoff" =>
            /\ reconnects = IF NextId = 1 THEN 0
                            ELSE (NextId - 2) - (IF pc = "connected" /\ phase = "repair"
                                                 THEN 1 ELSE 0)
            /\ env.listeners => Len(emit) = reconnects)
    /\ [][(kind = "backoff" /\ reconnects' # reconnects)
             => /\ reconnects' = reconnects + 1
                /\ phase = "repair"
                /\ inners[ch].st = "connected"
                /\ inner' = ch]_vars

\* the second replacement has been installed: two Emit were started
C14_Witness ==
    /\ kind = "backoff"
    /\ env.listeners
    /\ pc = "select"
    /\ inner = 3
    /\ reconnects = 2
    /\ Len(emit) = 2

\* C15: two EventReconnect emissions of one backoff handler never have their
\* listeners running at the same time, and the listeners of an emission start
\* only when those of the emission before have completed.
C15_EmissionsSerialized ==
    \A i, j \in DOMAIN emit :
        (i < j /\ emit[j] \in {"running", "done"}) => emit[i] = "done"

\* C16: in a scheduled rotation of the reopen-interval handler the run loop
\* calls Close on the handler in use only when Connect on the next handler has
\* returned without error: a step of the loop in a rotation that closes the
\* handler in use holds a next handler, another one, that is connected.
C16_ConnectBeforeClose ==
    [][(/\ kind = "reopen"
        /\ pc' # pc
        /\ phase' = "ticker"
        /\ inner # 0
        /\ inners'[inner] # inners[inner])
          => /\ ch # 0
             /\ ch # inner
             /\ inners[ch].st = "connected"
             /\ ~inners[ch].closeCalled]_vars

\* a rotation has closed the old handler and holds the new one, still open
C16_Witness ==
    /\ kind = "reopen"
    /\ pc = "swap"
    /\ inners[inner].closeCalled
    /\ inners[inner].err = ErrTerminated
    /\ ch # inner
    /\ inners[ch].st = "connected"
    /\ ~inners[ch].closed

C18_SecondConnectNoOp ==
    [][(/\ kind \in {"activeKeepAlive", "reopen"}
        /\ connectCalls >= 1
        /\ connectCalls' = connectCalls + 1)
          => UNCHANGED << inners, inner, runs >>]_vars

\* C19: Close() on a backoff, reopen-interval or active keep-alive handler on
\* which Connect was never called completes without a fault and opens no
\* connection.
C19_CloseBeforeConnect ==
    (kind \in {"backoff", "reopen", "activeKeepAlive"} /\ pc = "fresh" /\ connectCalls = 0)
        => /\ ~fault
           /\ \A i \in InnerIds : inners[i].st # "connected"

\* C20: with the policy KeepAliveHandlerReplyPingWithPong, a Recv of the
\* passive keep-alive handler with a Ping issues exactly one Send on the inner
\* handler, of a Pong with the payload of the Ping, and a Recv with a message
\* of another type issues no Send; the message itself is passed on.
C20_PingPong ==
    [][(kind = "passiveKeepAlive" /\ delivered' # delivered)
          => LET new  == SubSeq(delivered', Len(delivered) + 1, Len(delivered'))
                 m    == new[Len(new)].m
                 IsSend(d) == d.op = "Send"
             IN  /\ Len(new) >= 1
                 /\ new[Len(new)] = [to |-> inner, op |-> "Recv", m |-> m]
                 /\ SelectSeq(new, IsSend) =
                        IF m.type = "PingMessage"
                        THEN << [to |-> inner, op |-> "Send",
                                 m |-> [type |-> "PongMessage", data |-> m.data]] >>
                        ELSE << >>
                 /\ Len(new) = IF m.type = "PingMessage" THEN 2 ELSE 1]_vars

\* a Ping with payload 1, 2 was answered and passed on, then a data message
\* was passed on
C20_Witness ==
    /\ kind = "passiveKeepAlive"
    /\ Len(delivered) = 3
    /\ delivered[1] = [to |-> 1, op |-> "Send",
                       m |-> [type |-> "PongMessage", data |-> <<1, 2>>]]
    /\ delivered[2] = [to |-> 1, op |-> "Recv",
                       m |-> [type |-> "PingMessage", data |-> <<1, 2>>]]
    /\ delivered[3].op = "Recv"
    /\ delivered[3].m.type = "DataMessage"

\* C21: when the Emit calls were made after all the On calls had completed,
\* and all have returned, every listener was invoked exactly once by every Emit
\* for its event: N listeners of an event and M Emit calls for it make N * M
\* invocations, whatever the interleaving of the Emit calls.
C21_ConcurrentEmit ==
    (/\ kind = "emitter"
     /\ emitter.closed = 0
     /\ \A j \in DOMAIN emitter.emits :
            /\ emitter.emits[j].pc = "returned"
            /\ emitter.emits[j].after = Len(emitter.on))
        => /\ \A j \in DOMAIN emitter.emits, i \in DOMAIN emitter.on :
                Cardinality({n \in DOMAIN emitter.invoked :
                                /\ emitter.invoked[n].emit = j
                                /\ emitter.invoked[n].listener = i})
                    = IF emitter.on[i].event = emitter.emits[j].event THEN 1 ELSE 0
           /\ Len(emitter.invoked) =
                  Cardinality({p \in (DOMAIN emitter.emits) \X (DOMAIN emitter.on) :
                                  emitter.on[p[2]].event = emitter.emits[p[1]].event})
           /\ \A k \in EventKeys :
                  (/\ \A i \in DOMAIN emitter.on : emitter.on[i].event = k
                   /\ \A j \in DOMAIN emitter.emits : emitter.emits[j].event = k)
                      => Len(emitter.invoked) = Len(emitter.on) * Len(emitter.emits)

\* two listeners, two Emit calls whose callbacks interleaved, four invocations
C21_Witness ==
    /\ kind = "emitter"
    /\ emitter.closed = 0
    /\ Len(emitter.on) = 2
    /\ \A i \in DOMAIN emitter.on : emitter.on[i].event = "EventReconnect"
    /\ Len(emitter.emits) = 2
    /\ \A j \in DOMAIN emitter.emits :
           /\ emitter.emits[j].pc = "returned"
           /\ emitter.emits[j].after = 2
           /\ emitter.emits[j].event = "EventReconnect"
    /\ Len(emitter.invoked) = 4
    /\ emitter.invoked[1].emit # emitter.invoked[2].emit

C23_Routing ==
    [][(kind = "client" /\ delivered' # delivered)
          => \E m \in Messages :
                 delivered' = Append(delivered,
                     IF m.type = "DataMessage"
                     THEN [to |-> 0, op |-> "messageHandler", m |-> m]
                     ELSE [to |-> inner, op |-> "Recv", m |-> m])]_vars

\* a binary message went to the handler and a data message to the callback
C23_Witness ==
    /\ kind = "client"
    /\ Len(delivered) = 2
    /\ delivered[1] = [to |-> 1, op |-> "Recv",
                       m |-> [type |-> "BinaryMessage", data |-> <<1>>]]
    /\ delivered[2] = [to |-> 0, op |-> "messageHandler",
                       m |-> [type |-> "DataMessage", data |-> <<1, 2>>]]

\* C24: the close-reason of a backoff handler and of a WsConnection is written
\* once: when CloseErr() returns a reason, no later step changes what it
\* returns.
C24_CloseReasonOnce ==
    [][(kind \in {"backoff", "ws"} /\ closeReason # Nil) => closeReason' = closeReason]_vars

\* C25: a message passed to Send or Recv of the backoff handler while its
\* inner handler is closed and not replaced yet is dropped: it is not
\* forwarded to a handler that connects afterwards.
C25_RepairMessagesDropped ==
    kind = "backoff" =>
        \A i \in DOMAIN delivered :
            delivered[i].m.dead # 0 => delivered[i].to <= delivered[i].m.dead

\* C26: whenever the close channel of a WsConnection is closed, CloseErr()
\* returns the reason already: a reader of the close-signal that calls
\* CloseErr() right away obtains a reason that is not nil.
C26_ReasonAtSignal ==
    (kind = "ws" /\ closeC > 0) => closeReason # Nil

\* C27: message order is preserved: the messages the backoff handler has
\* forwarded to its inner handlers through Recv, and those through Send, are
\* the first messages passed to its Recv, and to its Send, in the order they
\* were passed and each once; the frames the read goroutine of a WsConnection
\* has pushed are the first frames read, in the order they were read.
C27_OrderPreserved ==
    /\ kind = "backoff" =>
           \A o \in Ops :
               LET IsOp(d) == d.op = o
                   F == SelectSeq(delivered, IsOp)
               IN  \A i \in DOMAIN F : F[i].m.n = i
    /\ kind = "ws" => \A i \in DOMAIN delivered : delivered[i].m = i

\* two Recv calls were made while the run loop was busy and both messages
\* were forwarded to the same inner handler afterwards
C27_Witness ==
    /\ kind = "backoff"
    /\ Len(delivered) = 2
    /\ delivered[1].op = "Recv"
    /\ delivered[2].op = "Recv"
    /\ delivered[1].to = delivered[2].to
    /\ delivered[1].m.n = 1
    /\ delivered[2].m.n = 2
    /\ recv = << >>

\* C28: in a scheduled rotation of the reopen-interval handler the run loop
\* closes the old inner handler only when the new one is installed: at the
\* step of the loop that closes a handler, that handler is not the current
\* inner any more.
C28_SwapBeforeClose ==
    [][(kind = "reopen" /\ phase = "ticker" /\ pc' # pc)
          => \A i \in InnerIds :
                 (inners'[i].closeCalled /\ ~inners[i].closeCalled)
                     => (inner # i /\ inner # 0)]_vars

\* C29: a Recv(m) of the passive keep-alive handler, whatever the type of m,
\* invokes the policy first and forwards m to Recv of the inner handler after
\* it, once: what the inner handler receives in the call ends with the one
\* Recv(m), and for a Ping it starts with the Send of the Pong.
C29_PolicyThenForward ==
    [][(kind = "passiveKeepAlive" /\ calls'["Recv"] = calls["Recv"] + 1)
          => LET new == SubSeq(delivered', Len(delivered) + 1, Len(delivered'))
             IN  /\ new # << >>
                 /\ SubSeq(delivered', 1, Len(delivered)) = delivered
                 /\ new[Len(new)].op = "Recv"
                 /\ new[Len(new)].to = inner
                 /\ new[Len(new)].m \in Messages
                 /\ \A n \in 1..(Len(new) - 1) : new[n].op = "Send" /\ new[n].to = inner
                 /\ new[Len(new)].m.type = "PingMessage"
                        => /\ Len(new) >= 2
                           /\ new[1].m.type = "PongMessage"]_vars

\* a Pong was forwarded with nothing before it, then a Ping after its Pong
C29_Witness ==
    /\ kind = "passiveKeepAlive"
    /\ calls["Recv"] = 2
    /\ Len(delivered) = 3
    /\ delivered[1] = [to |-> 1, op |-> "Recv", m |-> [type |-> "PongMessage", data |-> << >>]]
    /\ delivered[2].op = "Send"
    /\ delivered[3] = [to |-> 1, op |-> "Recv", m |-> [type |-> "PingMessage", data |-> <<1>>]]

\* C30: the run goroutine of the active keep-alive handler stops on the
\* close-signal and on ctx done: when the channel of the handler's CloseChan(),
\* which is the inner handler's, has fired or ctx is done, run eventually
\* returns.
C30_TickerStops ==
    (/\ kind = "activeKeepAlive"
     /\ pc = "select"
     /\ inners[inner].closed \/ ctxDone)
        ~> (pc = "done" \/ fault)

\* C31: a listener that calls On or Close of the emitter it was invoked by waits
\* in Lock() under its own Emit's reader lock and that Emit never returns; and
\* no On or Close takes effect while an Emit that has begun has not returned
C31_WriterExcludesEmit ==
    /\ [](kind = "emitter" =>
            \A k \in DOMAIN emitter.invoked :
                emitter.on[emitter.invoked[k].listener].does \in {"On", "Close"}
                    => emitter.emits[emitter.invoked[k].emit].pc = "Lock")
    /\ [][kind = "emitter" =>
            /\ \A j \in DOMAIN emitter.emits :
                   emitter.emits[j].pc = "Lock" => emitter'.emits[j] = emitter.emits[j]
            /\ (emitter'.listeners # emitter.listeners \/ emitter'.on # emitter.on
                    \/ emitter'.closed # emitter.closed)
                   => \A j \in DOMAIN emitter.emits : emitter.emits[j].pc = "returned"]_vars

\* an Emit whose listener called On or Close, with On calls still to be made
C31_Witness ==
    /\ kind = "emitter"
    /\ Len(emitter.on) < MaxOn
    /\ \E j \in DOMAIN emitter.emits :
           /\ emitter.emits[j].pc = "Lock"
           /\ emitter.invoked # << >>
           /\ emitter.invoked[Len(emitter.invoked)].emit = j

\* C32: a frame write that failed is the end of the connection: once write has
\* set the close reason to ErrConnectionClosed, bare or wrapped with the write
\* error, the connection is closed and its close-signal with it, or write is on
\* its way out to the deferred safeClose
C32_WriteErrorCloses ==
    (/\ kind = "ws"
     /\ closeReason \in {ErrConnectionClosed, Wrap(ErrConnectionClosed, "write")})
        => (closeOnce # "new" \/ wr = "exit")

\* C33: on a connection whose socket does not fail by itself and whose context
\* is live, the close reason, once set, is ErrTerminated: what ended it is the
\* caller's Close()
C33_LocalCloseTerminated ==
    (/\ kind = "ws"
     /\ env.stable
     /\ ~ctxDone
     /\ closeReason # Nil)
        => (/\ \E c \in Closers : cl[c] # "idle"
            /\ closeReason = ErrTerminated)

\* C34: the client's Close empties the emitter before it closes the handler
\* stack, and once it has returned the user's event callback is neither running
\* nor entered again: an Emit that run started for a reconnection finds no
\* listener, whether it was started before Close returned or after
C34_NoEventAfterClose ==
    /\ [](kind = "backoff" =>
            /\ \A c \in Closers :
                   cl[c] \in {"emitter", "called", "returned"} /\ env.listeners
                       => emitter.listeners["EventReconnect"] = << >>
            /\ (\E c \in Closers : cl[c] = "returned")
                   => \A i \in DOMAIN emit : emit[i] # "running")
    /\ [][(/\ kind = "backoff"
            /\ \E i \in DOMAIN emit : emit[i] # "running" /\ emit'[i] = "running")
              => \A c \in Closers : cl[c] \notin {"emitter", "called", "returned"}]_vars

\* the client's Close has returned and the Emit started by a reconnection has
\* found no listener
C34_Witness ==
    /\ kind = "backoff"
    /\ env.listeners
    /\ reconnects > 0
    /\ \E c \in Closers : cl[c] = "returned"
    /\ \E i \in DOMAIN emit : emit[i] = "notFound"

====
